---- MODULE Spec2Model ----
(***************************************************************************)
(* VIKOR ranking as implemented by src/vikor_streamlit.py.                 *)
(*                                                                         *)
(* Numbers are IEEE-754 binary64 floats, as Python's float and numpy's     *)
(* float64 are, and every operation rounds its exact result to the nearest *)
(* float, ties to even.  NaN, the infinities, subnormal numbers and the    *)
(* sign of zero are left out: no number of the model comes near the ends   *)
(* of the exponent range, and -0.0 equals 0.0 in every comparison of the   *)
(* program.  The decision matrix is a numpy-like record: its shape and its *)
(* rows.  Python's 0-based index i is the model's index i+1.               *)
(***************************************************************************)
EXTENDS Integers, Sequences, FiniteSets

\* ------------------------------------------------------------------ bounds
MaxM == 3        \* alternatives (rows) of a matrix
MaxN == 2        \* criteria (columns) of a matrix
MaxCells == 6    \* cells of a matrix

\* ------------------------------------------- IEEE-754 binary64 arithmetic
\* A natural number is the sequence of its digits in base 2^14, lowest first.
\* A float is <<sign, e, m>>: sign is -1, 0 or 1, m is the 53-bit significand
\* as a natural number with 2^52 <= m < 2^53 and the value is sign * m * 2^e;
\* zero is <<0, 0, <<0, 0, 0, 0>>>>.  Every operation computes the exact
\* result and rounds it to the nearest float, ties to even.
LimbBits == 14
LimbBase == 16384
Precision == 53
PowersOf2 == <<1, 2, 4, 8, 16, 32, 64, 128, 256, 512, 1024, 2048, 4096, 8192, 16384>>
Pow2(k) == PowersOf2[k + 1]

IAbs(x) == IF x < 0 THEN -x ELSE x
IMax(x, y) == IF x < y THEN y ELSE x

\* the digit of a natural number at position i (1 is the lowest)
Limb(a, i) == IF i >= 1 /\ i <= Len(a) THEN a[i] ELSE 0

\* columns of any size (negative ones included) to digits, carry c coming in;
\* the last element of the result is the carry going out
RECURSIVE Carry(_, _, _)
Carry(cols, i, c) ==
    IF i > Len(cols) THEN <<c>>
    ELSE <<(cols[i] + c) % LimbBase>> \o Carry(cols, i + 1, (cols[i] + c) \div LimbBase)

\* the digits of a natural number given as columns with a carry still in it
RECURSIVE Digits0(_)
Digits0(c) == IF c = 0 THEN <<>> ELSE <<c % LimbBase>> \o Digits0(c \div LimbBase)

\* the digits r carries, of which the last is the carry going out, as a number
CarriedOut(r) == SubSeq(r, 1, Len(r) - 1) \o Digits0(r[Len(r)])

Normal(cols) == CarriedOut(Carry(cols, 1, 0))

\* the number of digits without the leading zeros
RECURSIVE Top(_, _)
Top(a, i) == IF i = 0 THEN 0 ELSE IF a[i] # 0 THEN i ELSE Top(a, i - 1)

BIsZero(a) == Top(a, Len(a)) = 0

BAdd(a, b) == Normal([i \in 1..IMax(Len(a), Len(b)) |-> Limb(a, i) + Limb(b, i)])

\* a - b for a >= b
AllButLast(r) == SubSeq(r, 1, Len(r) - 1)

BSub(a, b) ==
    AllButLast(Carry([i \in 1..IMax(Len(a), Len(b)) |-> Limb(a, i) - Limb(b, i)], 1, 0))

\* -1, 0 or 1 as a < b, a = b or a > b
RECURSIVE CmpFrom(_, _, _)
CmpFrom(a, b, i) ==
    IF i = 0 THEN 0
    ELSE IF Limb(a, i) < Limb(b, i) THEN -1
    ELSE IF Limb(a, i) > Limb(b, i) THEN 1
    ELSE CmpFrom(a, b, i - 1)

BCmp(a, b) == CmpFrom(a, b, IMax(Len(a), Len(b)))

\* a * k for a digit k
BMulSmall(a, k) == Normal([i \in 1..Len(a) |-> a[i] * k])

\* a * b for two numbers of four digits
BMul(a, b) ==
    Normal(<<a[1] * b[1],
             a[1] * b[2] + a[2] * b[1],
             a[1] * b[3] + a[2] * b[2] + a[3] * b[1],
             a[1] * b[4] + a[2] * b[3] + a[3] * b[2] + a[4] * b[1],
             a[2] * b[4] + a[3] * b[3] + a[4] * b[2],
             a[3] * b[4] + a[4] * b[3],
             a[4] * b[4]>>)

\* a * 2^k
BShl(a, k) ==
    [i \in 1..(k \div LimbBits) |-> 0] \o BMulSmall(a, Pow2(k % LimbBits))

\* a \div 2^k
ShiftRight(a, d, r) ==
    [i \in 1..IMax(Len(a) - d, 0) |->
        (Limb(a, i + d) \div Pow2(r))
          + (Limb(a, i + d + 1) % Pow2(r)) * Pow2(LimbBits - r)]

BShr(a, k) == ShiftRight(a, k \div LimbBits, k % LimbBits)

\* bit k of a (bit 0 is the lowest), and whether a bit below bit k is set
Bit(a, k) == (Limb(a, (k \div LimbBits) + 1) \div Pow2(k % LimbBits)) % 2

BitsBelow(a, k) ==
    \/ \E i \in 1..(k \div LimbBits) : Limb(a, i) # 0
    \/ Limb(a, (k \div LimbBits) + 1) % Pow2(k % LimbBits) # 0

\* the number of bits of a natural number
BitLenTo(a, t) ==
    IF t = 0 THEN 0
    ELSE (t - 1) * LimbBits
           + (CHOOSE k \in 1..LimbBits : Pow2(k - 1) <= a[t] /\ a[t] < Pow2(k))

BitLen(a) == BitLenTo(a, Top(a, Len(a)))

FZero == <<0, 0, <<0, 0, 0, 0>>>>

\* the float nearest to sign * (n + f) * 2^e, where n is a natural number and
\* f is a fraction in [0, 1) of which only "sticky" (f > 0) is known; with
\* sticky, n has more than Precision + 1 bits
\* Round: n has s bits more than a significand holds; for s > 0 the s lowest
\* bits are cut off, and what is kept goes up by one when the bits cut off are
\* more than half a unit, or half a unit with the last bit kept being odd; a
\* significand that reaches 2^53 in going up is halved
FourLimbs(m) == SubSeq(m \o <<0, 0, 0>>, 1, 4)

Renormalized(sign, m, e) ==
    IF BitLen(m) > Precision THEN <<sign, e + 1, FourLimbs(BShr(m, 1))>>
    ELSE <<sign, e, FourLimbs(m)>>

RoundsUp(n, s, kept, sticky) ==
    Bit(n, s - 1) = 1 /\ (sticky \/ BitsBelow(n, s - 1) \/ kept[1] % 2 = 1)

RoundKept(sign, n, e, sticky, s, kept) ==
    Renormalized(sign, IF RoundsUp(n, s, kept, sticky) THEN BAdd(kept, <<1>>) ELSE kept,
                 e + s)

RoundBy(sign, n, e, sticky, s) ==
    IF s <= 0 THEN <<sign, e + s, FourLimbs(BShl(n, -s))>>
    ELSE RoundKept(sign, n, e, sticky, s, BShr(n, s))

Round(sign, n, e, sticky) ==
    IF BIsZero(n) THEN FZero ELSE RoundBy(sign, n, e, sticky, BitLen(n) - Precision)

\* the float of an integer below 2^31
FromInt(k) ==
    IF k = 0 THEN FZero
    ELSE Round(IF k < 0 THEN -1 ELSE 1, Digits0(IAbs(k)), 0, FALSE)

FNeg(a) == <<-a[1], a[2], a[3]>>
FAbs(a) == <<IAbs(a[1]), a[2], a[3]>>

\* the sum of two floats of the same sign, and the difference of two
\* magnitudes: the operand with the lower exponent is the unit.  An operand
\* whose exponent is more than FarApart below the other's is less than a
\* quarter of the other's last bit and leaves the other as it is.
FarApart == 64

AddMagnitudes(sign, a, b) ==
    IF a[2] < b[2] THEN Round(sign, BAdd(BShl(b[3], b[2] - a[2]), a[3]), a[2], FALSE)
    ELSE Round(sign, BAdd(BShl(a[3], a[2] - b[2]), b[3]), b[2], FALSE)

SubAligned(sign, x, y, e, c) ==
    IF c = 0 THEN FZero
    ELSE IF c > 0 THEN Round(sign, BSub(x, y), e, FALSE)
    ELSE Round(-sign, BSub(y, x), e, FALSE)

SubShifted(sign, x, y, e) == SubAligned(sign, x, y, e, BCmp(x, y))

SubMagnitudes(a, b) ==
    IF a[2] < b[2] THEN SubShifted(a[1], a[3], BShl(b[3], b[2] - a[2]), a[2])
    ELSE SubShifted(a[1], BShl(a[3], a[2] - b[2]), b[3], b[2])

RAdd(a, b) ==
    IF a[1] = 0 THEN b
    ELSE IF b[1] = 0 THEN a
    ELSE IF a[2] - b[2] > FarApart THEN a
    ELSE IF b[2] - a[2] > FarApart THEN b
    ELSE IF a[1] = b[1] THEN AddMagnitudes(a[1], a, b)
    ELSE SubMagnitudes(a, <<a[1], b[2], b[3]>>)

RSub(a, b) == RAdd(a, FNeg(b))

\* the significand of 1.0 and of every power of two; a product with a power of
\* two, a quotient by one and the quotient of two floats of one significand
\* are exact
UnitSignificand == <<0, 0, 0, 1024>>

RMul(a, b) ==
    IF a[1] = 0 \/ b[1] = 0 THEN FZero
    ELSE IF b[3] = UnitSignificand THEN <<a[1] * b[1], a[2] + b[2] + Precision - 1, a[3]>>
    ELSE IF a[3] = UnitSignificand THEN <<a[1] * b[1], a[2] + b[2] + Precision - 1, b[3]>>
    ELSE Round(a[1] * b[1], BMul(a[3], b[3]), a[2] + b[2], FALSE)

\* One step of the long division of a number r of five digits by a number d of
\* four digits whose highest digit is at least 2^13, for r < d * 2^14: the
\* quotient digit q and the rest r - q * d.  The estimate from the two highest
\* digits of r is at most 2 too high; a rest below zero shows in its sixth
\* element, and d is added back.
SubMul(r, d, q) ==
    Carry(<<r[1] - q * d[1], r[2] - q * d[2], r[3] - q * d[3], r[4] - q * d[4], r[5]>>, 1, 0)

WithBorrow(u, borrow) == <<u[1], u[2], u[3], u[4], u[5], u[6] + borrow>>

AddBack(t, d) ==
    WithBorrow(Carry(<<t[1] + d[1], t[2] + d[2], t[3] + d[3], t[4] + d[4], t[5]>>, 1, 0),
               t[6])

Estimate(e) == IF e >= LimbBase THEN LimbBase - 1 ELSE e

AddedBackOnce(q, u, d) == IF u[6] = 0 THEN <<q - 1, u>> ELSE <<q - 2, AddBack(u, d)>>

Subtracted(q, t, d) == IF t[6] = 0 THEN <<q, t>> ELSE AddedBackOnce(q, AddBack(t, d), d)

DivStepBy(r, d, q) == Subtracted(q, SubMul(r, d, q), d)

DivStep(r, d) == DivStepBy(r, d, Estimate((r[5] * LimbBase + r[4]) \div d[4]))

\* the quotient digits, highest first, of r * 2^(14 k) by d, then the rest
RECURSIVE LongDivision(_, _, _)
LongDivisionAfter(s, d, k) ==
    IF k = 0 THEN s
    ELSE <<s[1]>> \o LongDivision(<<0, s[2][1], s[2][2], s[2][3], s[2][4]>>, d, k - 1)

LongDivision(r, d, k) == LongDivisionAfter(DivStep(r, d), d, k)

\* the significands times 8 have four digits with the highest at least 2^13;
\* five quotient digits and the rest being zero or not
DivideSignificands(x, y) == LongDivision(<<x[1], x[2], x[3], x[4], 0>>, y, 4)

Quotient(sign, r, e) ==
    Round(sign, <<r[5], r[4], r[3], r[2], r[1]>>, e, ~BIsZero(r[6]))

RDiv(a, b) ==
    IF a[1] = 0 THEN FZero
    ELSE IF b[3] = UnitSignificand THEN <<a[1] * b[1], a[2] - b[2] - (Precision - 1), a[3]>>
    ELSE IF a[3] = b[3] THEN <<a[1] * b[1], a[2] - b[2] - (Precision - 1), UnitSignificand>>
    ELSE Quotient(a[1] * b[1], DivideSignificands(BMulSmall(a[3], 8), BMulSmall(b[3], 8)),
                  a[2] - b[2] - 4 * LimbBits)

\* a < b and a <= b
MagnitudeCmp(a, b) ==
    IF a[2] < b[2] THEN -1 ELSE IF a[2] > b[2] THEN 1 ELSE BCmp(a[3], b[3])

FCmp(a, b) ==
    IF a[1] # b[1] THEN (IF a[1] < b[1] THEN -1 ELSE 1)
    ELSE IF a[1] = 0 THEN 0
    ELSE a[1] * MagnitudeCmp(a, b)

RLt(a, b) == FCmp(a, b) < 0
RLe(a, b) == FCmp(a, b) <= 0

Zero == FZero
One == FromInt(1)

\* the float a decimal literal p/q denotes, for integers p and q that are
\* floats themselves: the float nearest to the quotient
Dec(p, q) == RDiv(FromInt(p), FromInt(q))

RAbs(a) == FAbs(a)

\* 1e-9, the tolerance of the three degeneracy tests, and x < 1e-9
Tol == Dec(1, 1000000000)
LtTol(a) == RLt(a, Tol)

\* np.sum of an array: numpy adds up to seven elements from left to right;
\* from eight elements on it keeps eight running sums, adds them in pairs
\* and adds the elements after the last full block of eight one by one; an
\* array of more than 128 elements is split in two
BlockSize == 128
Unroll == 8

RECURSIVE SumTo(_, _, _)
SumTo(res, s, k) == IF k > Len(s) THEN res ELSE SumTo(RAdd(res, s[k]), s, k + 1)

\* the running sum number k over the full blocks of eight of s
RECURSIVE Running(_, _, _)
Running(s, k, blocks) ==
    IF blocks = 1 THEN s[k]
    ELSE RAdd(Running(s, k, blocks - 1), s[(blocks - 1) * Unroll + k])

Unrolled(s, blocks) ==
    SumTo(RAdd(RAdd(RAdd(Running(s, 1, blocks), Running(s, 2, blocks)),
                    RAdd(Running(s, 3, blocks), Running(s, 4, blocks))),
               RAdd(RAdd(Running(s, 5, blocks), Running(s, 6, blocks)),
                    RAdd(Running(s, 7, blocks), Running(s, 8, blocks)))),
          s, blocks * Unroll + 1)

RECURSIVE pairwise_sum(_)
pairwise_sum(s) ==
    IF Len(s) < Unroll THEN SumTo(Zero, s, 1)
    ELSE IF Len(s) <= BlockSize
    THEN Unrolled(s, Len(s) \div Unroll)
    ELSE LET half == (Len(s) \div 2) - ((Len(s) \div 2) % Unroll)
         IN  RAdd(pairwise_sum(SubSeq(s, 1, half)),
                  pairwise_sum(SubSeq(s, half + 1, Len(s))))

np_sum(s) == RAdd(Zero, pairwise_sum(s))

\* np.max and np.min of an array; of an empty array they raise ValueError,
\* see Step1Raises, Step2Raises and Step3Raises
np_max(s) == CHOOSE x \in {s[k] : k \in DOMAIN s} : \A k \in DOMAIN s : RLe(s[k], x)
np_min(s) == CHOOSE x \in {s[k] : k \in DOMAIN s} : \A k \in DOMAIN s : RLe(x, s[k])

\* the array f[1], ..., f[k]
RECURSIVE Tuple(_, _)
Tuple(f, k) == IF k = 0 THEN <<>> ELSE Append(Tuple(f, k - 1), f[k])

\* ------------------------------------------------------------ the ranker
\* decision_matrix.shape and decision_matrix[:, j]
NRows(dm) == dm.shape[1]
NCols(dm) == dm.shape[2]
Column(dm, j) == [i \in 1..NRows(dm) |-> dm.data[i][j]]

\* np.zeros(k)
np_zeros(k) == [j \in 1..k |-> Zero]

\* the exception a step raises on these arguments, "none" if it runs through:
\* line 35 indexes criterion_types and line 36 reduces a column (step 1),
\* line 65 indexes weights and line 68 reduces diff_list (step 2),
\* line 71 reduces S (step 3)
Step1Raises(dm, ts) ==
    IF NCols(dm) >= 1 /\ NRows(dm) = 0 /\ Len(ts) >= 1 THEN "ValueError"
    ELSE IF Len(ts) < NCols(dm) THEN "IndexError"
    ELSE "none"

Step2Raises(dm, ws) ==
    IF NRows(dm) >= 1 /\ Len(ws) < NCols(dm) THEN "IndexError"
    ELSE IF NRows(dm) >= 1 /\ NCols(dm) = 0 THEN "ValueError"
    ELSE "none"

Step3Raises(dm) == IF NRows(dm) = 0 THEN "ValueError" ELSE "none"

\* the number of columns the loop of step 1 completes
Step1Columns(dm, ts) ==
    IF Step1Raises(dm, ts) = "ValueError" THEN 0
    ELSE IF Len(ts) < NCols(dm) THEN Len(ts)
    ELSE NCols(dm)

\* Step 1: best (f*) and worst (f-) value of every criterion; the arrays start
\* as zeros and keep the zeros of the columns the loop did not reach
FStarIgnoringType(dm, types) ==
    [j \in 1..NCols(dm) |->
        IF j > Step1Columns(dm, types) THEN Zero
        ELSE np_max(Column(dm, j))]

FStar(dm, types) ==
    [j \in 1..NCols(dm) |->
        IF j > Step1Columns(dm, types) THEN Zero
        ELSE IF types[j] = "benefit" THEN np_max(Column(dm, j))
        ELSE np_min(Column(dm, j))]

FMinus(dm, types) ==
    [j \in 1..NCols(dm) |->
        IF j > Step1Columns(dm, types) THEN Zero
        ELSE IF types[j] = "benefit" THEN np_min(Column(dm, j))
        ELSE np_max(Column(dm, j))]

\* Step 2: the normalised distance of cell (i, j) from the ideal
NormalizedConstantAsWorst(dm, types, fs, fm, i, j) ==
    LET denom == RAbs(RSub(fs[j], fm[j]))
    IN  IF LtTol(denom) THEN One
        ELSE IF types[j] = "benefit"
             THEN RDiv(RSub(fs[j], dm.data[i][j]), denom)
             ELSE RDiv(RSub(dm.data[i][j], fs[j]), denom)

NormalizedFromWorst(dm, types, fs, fm, i, j) ==
    LET denom == RAbs(RSub(fs[j], fm[j]))
    IN  IF LtTol(denom) THEN Zero
        ELSE IF types[j] = "benefit"
             THEN RDiv(RSub(fs[j], dm.data[i][j]), denom)
             ELSE RDiv(RSub(dm.data[i][j], fm[j]), denom)

Normalized(dm, types, fs, fm, i, j) ==
    LET denom == RAbs(RSub(fs[j], fm[j]))
    IN  IF LtTol(denom) THEN Zero
        ELSE IF types[j] = "benefit"
             THEN RDiv(RSub(fs[j], dm.data[i][j]), denom)
             ELSE RDiv(RSub(dm.data[i][j], fs[j]), denom)

\* diff_list of row i, and the rows' sums (S) and maxima (R)
DiffListUnweighted(dm, w, types, fs, fm, i) ==
    Tuple([j \in 1..NCols(dm) |-> Normalized(dm, types, fs, fm, i, j)],
          NCols(dm))

DiffList(dm, w, types, fs, fm, i) ==
    Tuple([j \in 1..NCols(dm) |-> RMul(w[j], Normalized(dm, types, fs, fm, i, j))],
          NCols(dm))

SOf(diff) == [i \in 1..Len(diff) |-> np_sum(diff[i])]

ROf(diff) == [i \in 1..Len(diff) |-> np_max(diff[i])]

\* Step 3: the compromise index, from the extremes of S and R (lines 71-74)
STermTiedAsOne(s, i, S_star, S_minus) ==
    IF LtTol(RAbs(RSub(S_minus, S_star))) THEN One
    ELSE RDiv(RSub(s[i], S_star), RSub(S_minus, S_star))

STerm(s, i, S_star, S_minus) ==
    IF LtTol(RAbs(RSub(S_minus, S_star))) THEN Zero
    ELSE RDiv(RSub(s[i], S_star), RSub(S_minus, S_star))

RTermFromZero(r, i, R_star, R_minus) ==
    IF LtTol(RAbs(RSub(R_minus, R_star))) THEN Zero
    ELSE RDiv(r[i], RSub(R_minus, R_star))

RTerm(r, i, R_star, R_minus) ==
    IF LtTol(RAbs(RSub(R_minus, R_star))) THEN Zero
    ELSE RDiv(RSub(r[i], R_star), RSub(R_minus, R_star))

QOfWithoutComplement(s, r, vv, S_star, S_minus, R_star, R_minus) ==
    [i \in 1..Len(s) |->
        RAdd(RMul(vv, STerm(s, i, S_star, S_minus)), RTerm(r, i, R_star, R_minus))]

QOf(s, r, vv, S_star, S_minus, R_star, R_minus) ==
    [i \in 1..Len(s) |->
        RAdd(RMul(vv, STerm(s, i, S_star, S_minus)),
             RMul(RSub(One, vv), RTerm(r, i, R_star, R_minus)))]

\* Step 4: df['Q'].rank(method='min'): the values are ordered, every value
\* takes its 1-based position, and tied values share the lowest position
RECURSIVE Insert(_, _)
Insert(x, s) ==
    IF Len(s) = 0 THEN <<x>>
    ELSE IF RLe(x, Head(s)) THEN <<x>> \o s
         ELSE <<Head(s)>> \o Insert(x, Tail(s))

RECURSIVE SortValues(_)
SortValues(s) == IF Len(s) = 0 THEN <<>> ELSE Insert(Head(s), SortValues(Tail(s)))

Lowest(ps) == CHOOSE p \in ps : \A o \in ps : p <= o
Highest(ps) == CHOOSE p \in ps : \A o \in ps : p >= o

RankMax(q) ==
    LET sorted == SortValues(q)
    IN  [i \in 1..Len(q) |-> Highest({p \in 1..Len(q) : sorted[p] = q[i]})]

RankMin(q) ==
    LET sorted == SortValues(q)
    IN  [i \in 1..Len(q) |-> Lowest({p \in 1..Len(q) : sorted[p] = q[i]})]

\* f"A{i+1}": the letter A followed by the decimal digits of the row number
DigitChar == <<"0", "1", "2", "3", "4", "5", "6", "7", "8", "9">>

RECURSIVE Digits(_)
Digits(k) ==
    IF k < 10 THEN <<DigitChar[k + 1]>>
    ELSE Digits(k \div 10) \o <<DigitChar[(k % 10) + 1]>>

Label(i) == <<"A">> \o Digits(i)

\* the frame built at lines 82-89, before it is sorted
Frame(s, r, q) ==
    LET rank == RankMin(q)
    IN  [i \in 1..Len(q) |->
            [Alternative |-> Label(i), S |-> s[i], R |-> r[i], Q |-> q[i],
             Rank |-> rank[i]]]

\* df.sort_values(by='Q'): the rows in an order of non-decreasing Q.  The
\* order of rows with equal Q is left to the sorting routine of the build.
Orders(k) == {p \in [1..k -> 1..k] : \A a, b \in 1..k : a # b => p[a] # p[b]}

SortByQ(frame) ==
    {[k \in 1..Len(frame) |-> frame[p[k]]] :
        p \in {o \in Orders(Len(frame)) :
                 \A k \in 1..(Len(frame) - 1) :
                     RLe(frame[o[k]].Q, frame[o[k + 1]].Q)}}

\* int(alt[1:]): the number written by the digits after the first character
DigitValue(c) == CHOOSE d \in 0..9 : DigitChar[d + 1] = c

RECURSIVE ParseInt(_)
ParseInt(cs) ==
    IF Len(cs) = 1 THEN DigitValue(cs[1])
    ELSE 10 * ParseInt(SubSeq(cs, 1, Len(cs) - 1)) + DigitValue(cs[Len(cs)])

\* line 508: the label of every row is replaced by names[int(label[1:]) - 1]
RelabelledByPosition(frame, names) ==
    [k \in 1..Len(frame) |-> [frame[k] EXCEPT !.Alternative = names[k]]]

Relabelled(frame, names) ==
    [k \in 1..Len(frame) |->
        [frame[k] EXCEPT !.Alternative = names[ParseInt(Tail(frame[k].Alternative))]]]

\* lines 503-505: weights are divided by their sum when the sum is positive
NormalizeByCount(ws) ==
    LET total == np_sum(ws)
    IN  IF RLt(Zero, total) THEN [j \in 1..Len(ws) |-> RDiv(ws[j], FromInt(Len(ws)))]
        ELSE ws

Normalize(ws) ==
    LET total == np_sum(ws)
    IN  IF RLt(Zero, total) THEN [j \in 1..Len(ws) |-> RDiv(ws[j], total)]
        ELSE ws

\* ---------------------------------------------------------------- state
VARIABLES
    pc,               \* "form", "call", "returned", "raised", "shown"
    alternatives,     \* the names typed into the form
    ui_weights,       \* the weights typed into the form (list `weights`, line 424)
    decision_matrix,  \* argument of vikor
    weights,          \* argument of vikor
    criterion_types,  \* argument of vikor
    v,                \* argument of vikor
    f_star, f_minus,  \* locals of vikor, as they were when the call ended
    S, R, Q,          \* locals of vikor, as they were when the call ended
    df,               \* the frame vikor returns
    err,              \* the exception vikor raised, "none" if none
    result,           \* the relabelled frame of the form
    prev              \* the scores of the call before a column was appended

vars == <<pc, alternatives, ui_weights, decision_matrix, weights,
          criterion_types, v, f_star, f_minus, S, R, Q, df, err, result, prev>>

\* cell values, and the cell values of the matrices of one criterion
Vals == {Zero, One}
Thirds == {Zero, One, FromInt(3)}
Types == {"benefit", "cost"}
MatricesOver(vals, m, n) == [shape : {<<m, n>>}, data : [1..m -> [1..n -> vals]]]
Matrices(m, n) == MatricesOver(Vals, m, n)
Half == Dec(1, 2)
ValidWeights == {Zero, Dec(1, 10), Dec(2, 10), Dec(3, 10)}
FormWeights == {Zero, Dec(5, 100), Dec(15, 100)}
ValidV == {Zero, Dec(3, 10), Half, One}

\* the names of the form: the defaults A1, A2, ... or names typed by the user
Laptops == <<<<"A", "s", "u", "s">>, <<"A", "c", "e", "r">>, <<"D", "e", "l", "l">>,
             <<"H", "P">>, <<"M", "S", "I">>>>
DefaultNames(m) == [i \in 1..m |-> Label(i)]
TypedNames(m) == [i \in 1..m |-> Laptops[i]]

\* argument lists of any length over a set of values
SeqsOf(vals, k) == [1..k -> vals]
Lengths(n) == {k \in {n - 1, n + 1} : k >= 0}

\* the arguments of a plain call that respects the documented parameters:
\* any weights with the default v, or any v with equal weights, and the
\* matrices of one criterion with cell values that are thirds of their range
ValidArgs ==
    \/ \E m \in 1..MaxM, n \in 1..MaxN :
          /\ m * n <= MaxCells
          /\ decision_matrix \in Matrices(m, n)
          /\ criterion_types \in SeqsOf(Types, n)
          /\ \/ weights \in SeqsOf(ValidWeights, n) /\ v = Half
             \/ weights = [j \in 1..n |-> Half] /\ v \in ValidV
    \/ \E m \in 1..MaxM :
          /\ decision_matrix \in MatricesOver(Thirds, m, 1)
          /\ criterion_types \in SeqsOf(Types, 1)
          /\ weights \in SeqsOf(ValidWeights, 1)
          /\ v = Half

\* the arguments of a plain call with one fault
FaultyArgs ==
    \/ \E m \in 0..MaxM, n \in 0..MaxN :        \* an empty matrix
          /\ m = 0 \/ n = 0
          /\ decision_matrix \in Matrices(m, n)
          /\ weights = [j \in 1..n |-> Half]
          /\ criterion_types \in SeqsOf(Types, n)
          /\ v = Half
    \/ \E m \in 1..MaxM, n \in 1..MaxN :        \* weights of another length
          /\ m * n <= MaxCells
          /\ decision_matrix \in Matrices(m, n)
          /\ \E k \in Lengths(n) : weights = [j \in 1..k |-> Half]
          /\ criterion_types \in SeqsOf(Types, n)
          /\ v = Half
    \/ \E m \in 1..MaxM, n \in 1..MaxN :        \* criterion types of another length
          /\ m * n <= MaxCells
          /\ decision_matrix \in Matrices(m, n)
          /\ weights = [j \in 1..n |-> Half]
          /\ \E k \in Lengths(n) : criterion_types \in SeqsOf(Types, k)
          /\ v = Half
    \/ \E m \in 1..MaxM, n \in 1..MaxN :        \* a negative weight
          /\ m * n <= MaxCells
          /\ decision_matrix \in Matrices(m, n)
          /\ \E k \in 1..n :
                weights = [j \in 1..n |-> IF j = k THEN Dec(-1, 2) ELSE Half]
          /\ criterion_types \in SeqsOf(Types, n)
          /\ v = Half
    \/ \E m \in 1..MaxM, n \in 1..MaxN :        \* a coefficient outside [0, 1]
          /\ m * n <= MaxCells
          /\ decision_matrix \in Matrices(m, n)
          /\ weights = [j \in 1..n |-> Half]
          /\ criterion_types \in SeqsOf(Types, n)
          /\ v \in {Dec(-1, 2), Dec(3, 2)}

\* Scenario A of the specification
ScenarioA ==
    /\ decision_matrix = [shape |-> <<2, 2>>,
                          data |-> <<<<FromInt(1), FromInt(2)>>, <<FromInt(3), FromInt(4)>>>>]
    /\ weights = <<Half, Half>>
    /\ criterion_types = <<"benefit", "benefit">>
    /\ v = Half

\* three alternatives on two cost criteria, with distances of one third
ScenarioThirds ==
    /\ decision_matrix = [shape |-> <<3, 2>>,
                          data |-> <<<<FromInt(2), FromInt(0)>>,
                                     <<FromInt(1), FromInt(3)>>,
                                     <<FromInt(4), FromInt(0)>>>>]
    /\ weights = <<Dec(3, 10), Dec(1, 10)>>
    /\ criterion_types = <<"cost", "cost">>
    /\ v = Half

\* three alternatives on seven benefit criteria
ScenarioWide ==
    /\ decision_matrix =
          [shape |-> <<3, 7>>,
           data |-> <<<<Zero, Zero, One, One, Zero, One, Zero>>,
                      <<Zero, Zero, Zero, One, One, One, One>>,
                      <<Zero, One, Zero, Zero, Zero, Zero, One>>>>]
    /\ weights = <<Dec(2, 10), Dec(3, 10), Dec(2, 10), Dec(2, 10), Dec(3, 10),
                   Dec(2, 10), Dec(3, 10)>>
    /\ criterion_types = [j \in 1..7 |-> "benefit"]
    /\ v = Half

NoLocals ==
    /\ f_star = <<>> /\ f_minus = <<>>
    /\ S = <<>> /\ R = <<>> /\ Q = <<>>
    /\ df = <<>> /\ err = "none"

\* vikor is about to be called with arguments of the caller's choice
InitCall ==
    /\ pc = "call"
    /\ alternatives = <<>> /\ ui_weights = <<>>
    /\ NoLocals /\ result = <<>> /\ prev = <<>>

Init ==
    /\ InitCall
    /\ ValidArgs \/ FaultyArgs \/ ScenarioA \/ ScenarioThirds

\* the form is filled in (lines 389-487) and waits for its submit button
InitForm ==
    /\ pc = "form"
    /\ \/ \E m \in 2..MaxM, n \in 2..MaxN :
             /\ m * n <= MaxCells
             /\ ui_weights \in SeqsOf(FormWeights, n)
             /\ \/ /\ alternatives = TypedNames(m)
                   /\ criterion_types \in SeqsOf(Types, n)
                \/ /\ alternatives = DefaultNames(m)       \* the untouched widgets
                   /\ criterion_types = [j \in 1..n |-> "benefit"]
             /\ decision_matrix \in Matrices(m, n)
       \/ /\ ui_weights = <<Dec(20, 100), Dec(15, 100)>>
          /\ alternatives = TypedNames(3)
          /\ criterion_types = <<"cost", "cost">>
          /\ decision_matrix = [shape |-> <<3, 2>>,
                                data |-> <<<<Zero, FromInt(2)>>,
                                           <<FromInt(2), Zero>>,
                                           <<One, One>>>>]
    /\ weights = <<>> /\ v = Half
    /\ NoLocals /\ result = <<>> /\ prev = <<>>

\* a valid call with the default v = 0.5, to be repeated with one more column
InitNeutral ==
    /\ InitCall
    /\ \/ /\ ValidArgs
          /\ NRows(decision_matrix) * (NCols(decision_matrix) + 1) <= MaxCells
          /\ v = Half
       \/ ScenarioWide

\* the call ends with these locals, this frame and this exception
Leave(fs, fm, s, r, q, frames, e) ==
    /\ f_star' = fs /\ f_minus' = fm
    /\ S' = s /\ R' = r /\ Q' = q
    /\ df' \in frames
    /\ err' = e

\* lines 15-92: one call of vikor, from its first line to its return or to
\* the exception that ends it.  A local the call never bound is <<>>; an
\* array keeps the zeros of the elements the call did not reach.
Vikor(dm, ws, ts, vv) ==
    \E fs \in {Tuple(FStar(dm, ts), NCols(dm))},
       fm \in {Tuple(FMinus(dm, ts), NCols(dm))} :
    IF Step1Raises(dm, ts) # "none"
    THEN Leave(fs, fm, <<>>, <<>>, <<>>, {<<>>}, Step1Raises(dm, ts))
    ELSE IF Step2Raises(dm, ws) # "none"
    THEN Leave(fs, fm, Tuple(np_zeros(NRows(dm)), NRows(dm)),
               Tuple(np_zeros(NRows(dm)), NRows(dm)), <<>>, {<<>>},
               Step2Raises(dm, ws))
    ELSE
    \E diff \in {Tuple([i \in 1..NRows(dm) |-> DiffList(dm, ws, ts, fs, fm, i)],
                       NRows(dm))} :
    \E s \in {Tuple(SOf(diff), NRows(dm))},
       r \in {Tuple(ROf(diff), NRows(dm))} :
    IF Step3Raises(dm) # "none"
    THEN Leave(fs, fm, s, r, <<>>, {<<>>}, Step3Raises(dm))
    ELSE
    \E S_star \in {np_min(s)}, S_minus \in {np_max(s)},
       R_star \in {np_min(r)}, R_minus \in {np_max(r)} :
    \E q \in {Tuple(QOf(s, r, vv, S_star, S_minus, R_star, R_minus), NRows(dm))} :
    \E frame \in {Tuple(Frame(s, r, q), NRows(dm))} :
        Leave(fs, fm, s, r, q, SortByQ(frame), "none")

\* a plain call of vikor
Call ==
    /\ pc = "call"
    /\ Vikor(decision_matrix, weights, criterion_types, v)
    /\ pc' = IF err' = "none" THEN "returned" ELSE "raised"
    /\ UNCHANGED <<alternatives, ui_weights, decision_matrix, weights,
                   criterion_types, v, result, prev>>

\* lines 494-508: the submit handler normalises the weights, calls vikor with
\* v = 0.5 and gives the rows of the returned frame the names of the form
Submit ==
    /\ pc = "form"
    /\ weights' = Normalize(ui_weights)
    /\ v' = Half
    /\ Vikor(decision_matrix, weights', criterion_types, Half)
    /\ result' = IF err' = "none" THEN Relabelled(df', alternatives) ELSE <<>>
    /\ pc' = IF err' = "none" THEN "shown" ELSE "raised"
    /\ UNCHANGED <<alternatives, ui_weights, decision_matrix, criterion_types, prev>>

\* the rank the frame gives to the row that came from matrix row i
RankOf(frame, i) ==
    LET k == CHOOSE x \in 1..Len(frame) : frame[x].Alternative = Label(i)
    IN  frame[k].Rank

\* vikor is called a second time, with the arguments of the call that has
\* returned and one more criterion whose column holds one value in every row;
\* the scores of the first call are kept in prev
AppendConstantColumn ==
    /\ pc = "returned" /\ prev = <<>>
    /\ \E c \in Vals, w \in ValidWeights, t \in Types :
          /\ decision_matrix' =
                [shape |-> <<NRows(decision_matrix), NCols(decision_matrix) + 1>>,
                 data |-> Tuple([i \in 1..NRows(decision_matrix) |->
                                    Append(decision_matrix.data[i], c)],
                                NRows(decision_matrix))]
          /\ weights' = Append(weights, w)
          /\ criterion_types' = Append(criterion_types, t)
    /\ Vikor(decision_matrix', weights', criterion_types', v)
    /\ prev' = [S |-> S, R |-> R, Q |-> Q,
                Rank |-> [i \in 1..Len(Q) |-> RankOf(df, i)]]
    /\ pc' = IF err' = "none" THEN "returned" ELSE "raised"
    /\ UNCHANGED <<alternatives, ui_weights, v, result>>

Next == Call

Spec == Init /\ [][Next]_vars

NextForm == Submit

SpecForm == InitForm /\ [][NextForm]_vars

NextNeutral == Call \/ AppendConstantColumn

SpecNeutral == InitNeutral /\ [][NextNeutral]_vars
\* ------------------------------------------------------------ properties
Rows == 1..NRows(decision_matrix)
Cols == 1..NCols(decision_matrix)
Cell(i, j) == decision_matrix.data[i][j]

NonNegative(x) == x[1] >= 0
Positive(x) == x[1] > 0
InUnitInterval(x) == RLe(Zero, x) /\ RLe(x, One)

ShapeMatches ==
    /\ Len(weights) = NCols(decision_matrix)
    /\ Len(criterion_types) = NCols(decision_matrix)

\* the input the contract of the ranker allows
ValidInput ==
    /\ NRows(decision_matrix) >= 1 /\ NCols(decision_matrix) >= 1
    /\ ShapeMatches
    /\ \A j \in 1..Len(weights) : NonNegative(weights[j])
    /\ InUnitInterval(v)

\* how far the call that has ended came
Ended == pc \in {"returned", "raised", "shown"}
Returned == pc \in {"returned", "shown"}
Step1Done == Ended /\ Step1Raises(decision_matrix, criterion_types) = "none"
Step2Done == Step1Done /\ Step2Raises(decision_matrix, weights) = "none"
Step3Done == Step2Done /\ Step3Raises(decision_matrix) = "none"
NothingComputed ==
    /\ f_star = <<>> /\ f_minus = <<>>
    /\ S = <<>> /\ R = <<>> /\ Q = <<>> /\ df = <<>>

\* C1: a call whose weights or criterion types have another length than the
\* matrix has columns fails with InvalidInputError{ShapeMismatch} and computes
\* nothing: no reference point, S, R, Q or rank.
C1_ShapeMismatchRejected ==
    (Ended /\ ~ShapeMatches) =>
        /\ pc = "raised"
        /\ err = "InvalidInputError"
        /\ NothingComputed

\* C2: a call with a negative weight, with v outside [0, 1] or with an empty
\* matrix fails with InvalidInputError before any reference point, S, R or Q
\* is computed, and returns nothing.
C2_InvalidValuesRejected ==
    (/\ Ended
     /\ \/ \E j \in 1..Len(weights) : ~NonNegative(weights[j])
        \/ ~InUnitInterval(v)
        \/ NRows(decision_matrix) < 1
        \/ NCols(decision_matrix) < 1) =>
        /\ pc = "raised"
        /\ err = "InvalidInputError"
        /\ NothingComputed

\* the largest and the smallest value of column j, by their defining property
IsColumnMax(x, j) ==
    /\ \E i \in Rows : Cell(i, j) = x
    /\ \A i \in Rows : RLe(Cell(i, j), x)

IsColumnMin(x, j) ==
    /\ \E i \in Rows : Cell(i, j) = x
    /\ \A i \in Rows : RLe(x, Cell(i, j))

ConstantColumn(j) == \A i, k \in Rows : Cell(i, j) = Cell(k, j)

\* C3: once step 1 is done, the ideal of a benefit criterion is the maximum of
\* its column and its anti-ideal the minimum; for a cost criterion the ideal is
\* the minimum and the anti-ideal the maximum; on a constant column both agree.
C3_ReferencePoints ==
    Step1Done =>
        \A j \in Cols :
            /\ criterion_types[j] = "benefit" =>
                   IsColumnMax(f_star[j], j) /\ IsColumnMin(f_minus[j], j)
            /\ criterion_types[j] = "cost" =>
                   IsColumnMin(f_star[j], j) /\ IsColumnMax(f_minus[j], j)
            /\ ConstantColumn(j) => f_star[j] = f_minus[j]

C3_Witness ==
    /\ pc = "returned"
    /\ NRows(decision_matrix) = 3
    /\ \E j, k \in Cols :
          /\ criterion_types[j] = "cost" /\ criterion_types[k] = "benefit"
          /\ RLt(f_star[j], f_minus[j])
          /\ ConstantColumn(k) /\ f_star[k] = f_minus[k]

\* C4: the returned frame is in non-decreasing order of Q, rows of equal Q have
\* equal rank, and the rank of a row is 1 + the number of rows whose Q is
\* strictly smaller.
C4_CompetitionRanking ==
    Returned =>
        /\ \A k, l \in 1..Len(df) : k < l => RLe(df[k].Q, df[l].Q)
        /\ \A k, l \in 1..Len(df) : df[k].Q = df[l].Q => df[k].Rank = df[l].Rank
        /\ \A k \in 1..Len(df) :
              df[k].Rank = 1 + Cardinality({l \in 1..Len(df) : RLt(df[l].Q, df[k].Q)})
        /\ \A i \in Rows : \E k \in 1..Len(df) :
              df[k].Alternative = Label(i) /\ df[k].Q = Q[i]

C4_Witness ==
    /\ pc = "returned"
    /\ Len(df) = 3
    /\ df[1].Q = df[2].Q /\ df[1].Rank = 1 /\ df[2].Rank = 1
    /\ RLt(df[2].Q, df[3].Q) /\ df[3].Rank = 3

\* C5 as claimed: when a valid call is repeated with one more criterion whose
\* column is constant, with any non-negative weight and either polarity, every
\* alternative keeps its S, R, Q and rank.
C5_Claimed ==
    (prev # <<>> /\ ValidInput) =>
        /\ pc = "returned"
        /\ S = prev.S /\ R = prev.R /\ Q = prev.Q
        /\ \A i \in Rows : RankOf(df, i) = prev.Rank[i]

\* C5 as amended: every alternative keeps its R; it keeps its S, Q and rank
\* when the repeated call has fewer than eight criteria, the number from which
\* np.sum adds in another order.
C5_ConstantColumnNeutral ==
    (prev # <<>> /\ ValidInput) =>
        /\ pc = "returned"
        /\ R = prev.R
        /\ NCols(decision_matrix) < Unroll =>
              /\ S = prev.S /\ Q = prev.Q
              /\ \A i \in Rows : RankOf(df, i) = prev.Rank[i]

C5_Witness ==
    /\ prev # <<>> /\ pc = "returned" /\ ValidInput
    /\ NRows(decision_matrix) = 2 /\ NCols(decision_matrix) = 3
    /\ weights[3] = Dec(3, 10) /\ criterion_types[3] = "cost" /\ Cell(1, 3) = One
    /\ ConstantColumn(3)
    /\ RLt(prev.R[1], prev.S[1]) /\ prev.Q[2] = Zero /\ prev.Q[1] = One
    /\ prev.Rank = <<2, 1>>

\* the S values, or the R values, are not all the same
Spread(xs) == \E i, k \in 1..Len(xs) : RLt(xs[i], xs[k])

\* C6: for a valid input with v in [0, 1], when max S > min S and max R > min R,
\* the S term and the R term of every alternative lie in [0, 1] and so does Q.
C6_QInUnitInterval ==
    (Step3Done /\ ValidInput /\ Spread(S) /\ Spread(R)) =>
        \A i \in Rows :
            /\ InUnitInterval(STerm(S, i, np_min(S), np_max(S)))
            /\ InUnitInterval(RTerm(R, i, np_min(R), np_max(R)))
            /\ InUnitInterval(Q[i])

C6_Witness ==
    /\ pc = "returned" /\ ValidInput /\ Spread(S) /\ Spread(R)
    /\ v = Half
    /\ \E i, k, l \in Rows :
          /\ Q[i] = Zero /\ Q[l] = One
          /\ RLt(Zero, Q[k]) /\ RLt(Q[k], One)
          /\ STerm(S, k, np_min(S), np_max(S)) # RTerm(R, k, np_min(R), np_max(R))

IsIdealRow(i) == \A j \in Cols : Cell(i, j) = f_star[j]
IsAntiIdealRow(i) == \A j \in Cols : Cell(i, j) = f_minus[j]

\* C7: an alternative whose row equals the ideal on every criterion has S = 0
\* and R = 0, whatever the weights and the polarities.
C7_IdealRowScoresZero ==
    Step2Done =>
        \A i \in Rows : IsIdealRow(i) => (S[i] = Zero /\ R[i] = Zero)

C7_Witness ==
    /\ pc = "returned"
    /\ \E i, k \in Rows :
          /\ IsIdealRow(i) /\ S[i] = Zero /\ R[i] = Zero
          /\ Positive(S[k])
    /\ \E j, k \in Cols :
          /\ criterion_types[j] = "benefit" /\ criterion_types[k] = "cost"
          /\ Positive(weights[j]) /\ Positive(weights[k])
          /\ ~ConstantColumn(j) /\ ~ConstantColumn(k)

\* some criterion tells the alternatives apart and counts
Discriminating == \E j \in Cols : Positive(weights[j]) /\ ~ConstantColumn(j)

\* the row of alternative i in the returned frame, and its place among the
\* rows: first (last) means that no row before (after) it has another Q
RowOf(i) == CHOOSE k \in 1..Len(df) : df[k].Alternative = Label(i)
PlacedFirst(i) == \A l \in 1..Len(df) : l < RowOf(i) => df[l].Q = df[RowOf(i)].Q
PlacedLast(i) == \A l \in 1..Len(df) : l > RowOf(i) => df[l].Q = df[RowOf(i)].Q

\* neither the S values nor the R values are within 1e-9 of each other
NoTieInSAndR ==
    /\ ~LtTol(RAbs(RSub(np_max(S), np_min(S))))
    /\ ~LtTol(RAbs(RSub(np_max(R), np_min(R))))

\* Scenario A: the frame and the reference points the specification expects
ScenarioAExpected ==
    (Returned /\ ScenarioA) =>
        /\ f_star = <<FromInt(3), FromInt(4)>>
        /\ f_minus = <<FromInt(1), FromInt(2)>>
        /\ df = <<[Alternative |-> Label(2), S |-> Zero, R |-> Zero, Q |-> Zero,
                   Rank |-> 1],
                  [Alternative |-> Label(1), S |-> One, R |-> Half, Q |-> One,
                   Rank |-> 2]>>

\* C8 as claimed: on a valid input with a positive weight on a non-constant
\* criterion, an ideal alternative gets Q = 0 and rank 1 and comes first, an
\* anti-ideal alternative gets Q = 1 and comes last; Scenario A as expected.
C8_Claimed ==
    /\ (Returned /\ ValidInput /\ Discriminating) =>
          \A i \in Rows :
              /\ IsIdealRow(i) =>
                    (Q[i] = Zero /\ RankOf(df, i) = 1 /\ PlacedFirst(i))
              /\ IsAntiIdealRow(i) => (Q[i] = One /\ PlacedLast(i))
    /\ ScenarioAExpected

\* C8 as amended: the same, but the anti-ideal alternative gets Q = 1 only when
\* neither the S values nor the R values of the alternatives are tied (within
\* 1e-9); it comes last in every case.
C8_IdealFirstAntiIdealLast ==
    /\ (Returned /\ ValidInput /\ Discriminating) =>
          \A i \in Rows :
              /\ IsIdealRow(i) =>
                    (Q[i] = Zero /\ RankOf(df, i) = 1 /\ PlacedFirst(i))
              /\ IsAntiIdealRow(i) =>
                    /\ PlacedLast(i)
                    /\ NoTieInSAndR => Q[i] = One
    /\ ScenarioAExpected

C8_Witness ==
    /\ pc = "returned" /\ ValidInput /\ Discriminating
    /\ NRows(decision_matrix) = 3 /\ v = Half
    /\ IsAntiIdealRow(1) /\ IsIdealRow(3)
    /\ NoTieInSAndR
    /\ Q[1] = One /\ RowOf(1) = 3
    /\ Q[3] = Zero /\ RowOf(3) = 1 /\ df[1].Rank = 1
    /\ RLt(Zero, Q[2]) /\ RLt(Q[2], One)

\* every criterion is constant over the alternatives or has weight zero
Degenerate == \A j \in Cols : ConstantColumn(j) \/ weights[j] = Zero

\* C9: an input all of whose criteria are constant or carry weight zero is
\* ranked without error: S = R = Q = 0 and rank 1 for every alternative.
C9_DegenerateRanked ==
    (/\ NRows(decision_matrix) >= 1 /\ NCols(decision_matrix) >= 1
     /\ ShapeMatches /\ Degenerate) =>
        /\ pc # "raised" /\ err = "none"
        /\ Ended =>
              /\ \A i \in Rows : S[i] = Zero /\ R[i] = Zero /\ Q[i] = Zero
              /\ Len(df) = NRows(decision_matrix)
              /\ \A k \in 1..Len(df) :
                    /\ df[k].Rank = 1
                    /\ df[k].S = Zero /\ df[k].R = Zero /\ df[k].Q = Zero

C9_Witness ==
    /\ pc = "returned" /\ ShapeMatches /\ Degenerate
    /\ NRows(decision_matrix) = 3 /\ v = Half
    /\ \E j, k \in Cols :
          /\ ~ConstantColumn(j) /\ weights[j] = Zero
          /\ ConstantColumn(k) /\ weights[k] = Dec(3, 10) /\ criterion_types[k] = "cost"
    /\ \A k \in 1..3 : df[k].Rank = 1 /\ df[k].Q = Zero

\* the difference of two numbers is below the tolerance 1e-9
Close(a, b) == LtTol(RAbs(RSub(a, b)))

\* C10 as claimed: the submit handler passes raw weights divided by their sum
\* when the sum is positive, so that they sum to 1 and keep their proportions;
\* when the sum is 0 it passes the raw weights unchanged.
C10_Claimed ==
    pc # "form" =>
        LET total == np_sum(ui_weights)
        IN  IF Positive(total)
            THEN /\ Len(weights) = Len(ui_weights)
                 /\ \A j \in 1..Len(weights) : weights[j] = RDiv(ui_weights[j], total)
                 /\ \A j, k \in 1..Len(weights) :
                       RMul(weights[j], ui_weights[k]) = RMul(weights[k], ui_weights[j])
                 /\ np_sum(weights) = One
            ELSE weights = ui_weights

\* C10 as amended: each passed weight is the floating-point quotient of the
\* raw weight by the sum; the passed weights sum to 1 and keep their
\* proportions within the tolerance 1e-9, and keep their order.
C10_WeightNormalization ==
    pc # "form" =>
        LET total == np_sum(ui_weights)
        IN  IF Positive(total)
            THEN /\ Len(weights) = Len(ui_weights)
                 /\ \A j \in 1..Len(weights) : weights[j] = RDiv(ui_weights[j], total)
                 /\ \A j, k \in 1..Len(weights) :
                       /\ Close(RMul(weights[j], ui_weights[k]),
                                RMul(weights[k], ui_weights[j]))
                       /\ RLe(ui_weights[j], ui_weights[k]) => RLe(weights[j], weights[k])
                 /\ Close(np_sum(weights), One)
            ELSE weights = ui_weights

C10_Witness ==
    /\ pc = "shown"
    /\ ui_weights = <<Dec(5, 100), Dec(15, 100)>>
    /\ weights[1] = Dec(25, 100)
    /\ RLt(weights[2], Dec(75, 100)) /\ Close(weights[2], Dec(75, 100))
    /\ RLt(np_sum(weights), One) /\ Close(np_sum(weights), One)

\* the valid calls with the default v = 0.5: S and R are computed before v is
\* read (line 79), so they are the S and R of the calls with any other v
InitDefaultV ==
    /\ InitCall
    /\ ValidArgs
    /\ v = Half

SpecDefaultV == InitDefaultV /\ [][Next]_vars

\* the normalised distance of cell (i, j)
Distance(i, j) == Normalized(decision_matrix, criterion_types, f_star, f_minus, i, j)

\* C11: for a valid input every normalised distance lies in [0, 1] for either
\* polarity, every weighted contribution lies between 0 and the weight of its
\* criterion, and every alternative has 0 <= R <= S <= the sum of the weights.
C11_DistancesAndScoresBounded ==
    (Step2Done /\ ValidInput) =>
        \A i \in Rows :
            /\ \A j \in Cols :
                  \E d \in {Distance(i, j)} :
                      /\ InUnitInterval(d)
                      /\ \E c \in {RMul(weights[j], d)} :
                            RLe(Zero, c) /\ RLe(c, weights[j])
            /\ RLe(Zero, R[i]) /\ RLe(R[i], S[i]) /\ RLe(S[i], np_sum(weights))

C11_Witness ==
    /\ pc = "returned" /\ ValidInput
    /\ weights = <<Dec(1, 10), Dec(3, 10)>>
    /\ \E j \in Cols : criterion_types[j] = "cost" /\ \E i \in Rows : Distance(i, j) = One
    /\ \E i \in Rows : RLt(R[i], S[i]) /\ S[i] = np_sum(weights)
    /\ \E i \in Rows : RLt(Zero, R[i]) /\ R[i] = S[i] /\ RLt(S[i], np_sum(weights))

\* the rows of a frame that carry the label, or the name, of matrix row i
RowsLabelled(frame, name) == {k \in 1..Len(frame) : frame[k].Alternative = name}
CarriesScoresOf(row, i) ==
    /\ row.S = S[i] /\ row.R = R[i] /\ row.Q = Q[i]
    /\ row.Rank = 1 + Cardinality({l \in Rows : RLt(Q[l], Q[i])})

\* C12: the returned frame has one row per alternative; the row labelled
\* A(i+1) carries the S, R, Q and rank of matrix row i; after the submit
\* handler has relabelled the frame, that same row shows the name the user
\* gave to row i and still carries the scores of row i.
C12_RowsKeepTheirScores ==
    Returned =>
        /\ Len(df) = NRows(decision_matrix)
        /\ \A i \in Rows :
              /\ Cardinality(RowsLabelled(df, Label(i))) = 1
              /\ \A k \in RowsLabelled(df, Label(i)) :
                    /\ CarriesScoresOf(df[k], i)
                    /\ pc = "shown" =>
                          /\ Len(result) = Len(df)
                          /\ result[k].Alternative = alternatives[i]
                          /\ CarriesScoresOf(result[k], i)

C12_Witness ==
    /\ pc = "shown"
    /\ alternatives = TypedNames(3)
    /\ df[1].Alternative = Label(3) /\ result[1].Alternative = Laptops[3]
    /\ df[3].Alternative = Label(2) /\ result[3].Alternative = Laptops[2]
    /\ result[1].Rank = 1 /\ result[2].Rank = 2 /\ result[3].Rank = 3
    /\ result[2].Q = Q[1] /\ RLt(Zero, Q[1]) /\ RLt(Q[1], One)

====
